---- MODULE Spec2Model ----
(***************************************************************************)
(* A model of testharnessreport.js: the metadata_generator object, which   *)
(* extracts the declared metadata of the completed tests, validates it     *)
(* against the page's cached_metadata and reports into the document.       *)
(*                                                                         *)
(* JavaScript values are records tagged with their type.  An object keeps  *)
(* its own properties as a sequence of <<key, value>> pairs in insertion   *)
(* order, which is the order for-in enumerates them in (no name used here  *)
(* is an array index).  A string is an atomic TLA+ string, except in the   *)
(* renderer, whose strings are sequences of one-character strings.         *)
(***************************************************************************)
EXTENDS Integers, Sequences, FiniteSets, TLC

VARIABLES
    tests,            \* process's argument: the sequence of Test Records
    index,            \* process's loop variable (0-based, as in the code)
    metadata,         \* metadata_generator.metadata
    cached_metadata,  \* window.cached_metadata (Undefined when never declared)
    message,          \* process's local
    messageClass,     \* process's local
    document,         \* document.body and the tree below it
    pc,               \* where the running handler is
    returned,         \* what validateCache returned: "true", "false", or
                      \* "TypeError" when it threw, "none" when never called
    looked,           \* number of test names validateCache looked up
    exception,        \* "TypeError" once an operation ended in one, else "none"
    extracted,        \* what extractFromTest returned (its testMetadata)
    source            \* the literal jsonifyObject rendered

vars == <<tests, index, metadata, cached_metadata, message, messageClass,
          document, pc, returned, looked, exception, extracted, source>>

\* ---------------------------------------------------------------- bounds

MaxTests == 3
MaxLen == 2

\* ------------------------------------------------------ JavaScript values

Undefined == [type |-> "undefined"]
Null == [type |-> "null"]
JSFunction == [type |-> "function"]
JSBoolean(b) == [type |-> "boolean", bool |-> b]
JSString(s) == [type |-> "string", str |-> s]
JSArray(items) == [type |-> "array", items |-> items]
JSObject(props) == [type |-> "object", props |-> props]
EmptyObject == JSObject(<<>>)

\* The code units of the strings the model uses.
Chars(s) ==
    CASE s = "" -> <<>>
      [] s = "a" -> <<"a">>
      [] s = "b" -> <<"b">>
      [] s = "ab" -> <<"a", "b">>
      [] s = "t1" -> <<"t", "1">>
      [] s = "t2" -> <<"t", "2">>
      [] s = "q\"" -> <<"q", "\"">>
      [] s = "help" -> <<"h", "e", "l", "p">>
      [] s = "assert" -> <<"a", "s", "s", "e", "r", "t">>
      [] s = "author" -> <<"a", "u", "t", "h", "o", "r">>
      [] s = "timeout" -> <<"t", "i", "m", "e", "o", "u", "t">>
      [] s = "constructor" -> <<"c", "o", "n", "s", "t", "r", "u", "c", "t", "o", "r">>
      [] s = "toString" -> <<"t", "o", "S", "t", "r", "i", "n", "g">>

\* The members every object literal inherits from Object.prototype.
ObjectPrototype ==
    {"constructor", "toString", "toLocaleString", "valueOf", "hasOwnProperty",
     "isPrototypeOf", "propertyIsEnumerable", "__proto__"}

Keys(obj) == [i \in 1..Len(obj.props) |-> obj.props[i][1]]
KeySet(obj) == {obj.props[i][1] : i \in 1..Len(obj.props)}

\* obj.hasOwnProperty(key), for an obj that does not throw
hasOwnProperty(obj, key) == obj.type = "object" /\ key \in KeySet(obj)

GetOwn(obj, key) == obj.props[CHOOSE i \in 1..Len(obj.props) : obj.props[i][1] = key][2]

\* obj[key] on an object literal: own property, else the prototype's, else undefined
Get(obj, key) ==
    IF hasOwnProperty(obj, key) THEN GetOwn(obj, key)
    ELSE IF key \in ObjectPrototype THEN JSFunction
    ELSE Undefined

\* obj[key] = value
Put(obj, key, value) ==
    IF hasOwnProperty(obj, key)
    THEN JSObject([i \in 1..Len(obj.props) |->
                     IF obj.props[i][1] = key THEN <<key, value>> ELSE obj.props[i]])
    ELSE JSObject(Append(obj.props, <<key, value>>))

\* delete obj[key]
Delete_Keep(obj, key) == obj
Delete(obj, key) == JSObject(SelectSeq(obj.props, LAMBDA p : p[1] # key))

\* ToBoolean
Truthy(v) ==
    CASE v.type \in {"undefined", "null"} -> FALSE
      [] v.type = "boolean" -> v.bool
      [] v.type = "string" -> v.str # ""
      [] OTHER -> TRUE

\* !v
Not(v) == JSBoolean(~Truthy(v))

\* v instanceof Array
InstanceofArray(v) == v.type = "array"

\* Reading a property of null or undefined throws a TypeError.
Throws(v) == v.type \in {"undefined", "null"}

\* v.length, for a value that does not throw; -1 stands for undefined, which
\* equals only itself and is greater than no index
Length(v) ==
    CASE v.type = "array" -> Len(v.items)
      [] v.type = "string" -> Len(Chars(v.str))
      [] OTHER -> -1

\* v[i] of an array of strings or of a string (0-based), as a string
At(v, i) ==
    CASE v.type = "array" -> v.items[i + 1]
      [] v.type = "string" -> Chars(v.str)[i + 1]

\* ------------------------------------------------------------ the document

createElement(tag) == [tag |-> tag, attrs |-> {}, data |-> <<>>, children |-> <<>>]
createTextNode(text) == [tag |-> "#text", attrs |-> {}, data |-> text, children |-> <<>>]
setAttribute(el, name, value) ==
    [el EXCEPT !.attrs = {a \in @ : a[1] # name} \cup {<<name, value>>}]
appendChild(el, child) == [el EXCEPT !.children = Append(@, child)]

\* The path (child indexes from the body) of the first element in document
\* order whose id is the given one; <<>> when there is none (null).
RECURSIVE FindFrom(_, _, _)
FindFrom(node, id, i) ==
    IF i > Len(node.children) THEN <<>>
    ELSE IF <<"id", id>> \in node.children[i].attrs THEN <<i>>
    ELSE LET below == FindFrom(node.children[i], id, 1)
         IN  IF below # <<>> THEN <<i>> \o below ELSE FindFrom(node, id, i + 1)

getElementById(doc, id) == FindFrom(doc, id, 1)

RECURSIVE NodeAt(_, _)
NodeAt(node, path) ==
    IF path = <<>> THEN node ELSE NodeAt(node.children[Head(path)], Tail(path))

\* The node at path's parentNode.insertBefore(new, the node at path); a path
\* one past the last child stands for a null reference node (append).
RECURSIVE insertBefore(_, _, _)
insertBefore(node, path, new) ==
    IF Len(path) = 1
    THEN [node EXCEPT !.children =
            SubSeq(@, 1, path[1] - 1) \o <<new>> \o SubSeq(@, path[1], Len(@))]
    ELSE [node EXCEPT !.children[path[1]] = insertBefore(@, Tail(path), new)]

\* The node at path's parentNode.removeChild(the node at path)
RECURSIVE removeChild(_, _)
removeChild(node, path) ==
    IF Len(path) = 1
    THEN [node EXCEPT !.children =
            SubSeq(@, 1, path[1] - 1) \o SubSeq(@, path[1] + 1, Len(@))]
    ELSE [node EXCEPT !.children[path[1]] = removeChild(@, Tail(path))]

nextSibling(path) == [path EXCEPT ![Len(path)] = @ + 1]

\* --------------------------------------------------------- the generator

metadataProperties == <<"help", "assert", "author">>

appendText(elemement, text) == appendChild(elemement, createTextNode(text))

\* Where a message goes: before the summary element, else at the end of the body.
PlaceMessage_AtEnd(doc, messageElement) == appendChild(doc, messageElement)
PlaceMessage(doc, messageElement) ==
    LET summary == getElementById(doc, "summary")
    IN  IF summary # <<>>
        THEN insertBefore(doc, summary, messageElement)
        ELSE appendChild(doc, messageElement)

error(doc, text) ==
    LET messageElement == appendText(setAttribute(createElement("p"), "class", "error"), text)
    IN  PlaceMessage(doc, messageElement)

RECURSIVE ExtractFrom(_, _, _)
ExtractFrom(test, testMetadata, metaIndex) ==
    IF metaIndex >= Len(metadataProperties) THEN testMetadata
    ELSE LET meta == metadataProperties[metaIndex + 1]
         IN  IF hasOwnProperty(test.properties, meta)
             THEN ExtractFrom(test, Put(testMetadata, meta, GetOwn(test.properties, meta)),
                              metaIndex + 1)
             ELSE ExtractFrom(test, testMetadata, metaIndex + 1)

extractFromTest_All(test) == JSObject(test.properties.props)
extractFromTest(test) == ExtractFrom(test, EmptyObject, 0)

\* One comparison of validateCache's inner loop (lines 71-88), for the key
\* meta: "pass" when the loop goes on, "false" when validateCache returns
\* false, "TypeError" when it throws.
RECURSIVE CompareItems(_, _, _)
CompareItems(cachedValue, testValue, i) ==
    IF ~(i < Length(cachedValue)) THEN "pass"
    ELSE IF At(cachedValue, i) # At(testValue, i) THEN "false"
    ELSE CompareItems(cachedValue, testValue, i + 1)

CompareMeta(cachedTestMetadata, testMetadata, meta) ==
    IF Throws(cachedTestMetadata) THEN "TypeError"
    ELSE IF hasOwnProperty(cachedTestMetadata, meta) /\ hasOwnProperty(testMetadata, meta)
    THEN LET cachedValue == GetOwn(cachedTestMetadata, meta)
             testValue == GetOwn(testMetadata, meta)
         IN  IF InstanceofArray(Not(cachedValue)) THEN "false"
             ELSE IF Throws(cachedValue) \/ Throws(testValue) THEN "TypeError"
             ELSE IF Length(cachedValue) = Length(testValue)
             THEN CompareItems(cachedValue, testValue, 0)
             ELSE "false"
    ELSE IF hasOwnProperty(cachedTestMetadata, meta) \/ hasOwnProperty(testMetadata, meta)
    THEN "false"
    ELSE "pass"

RECURSIVE CompareTest(_, _, _)
CompareTest(cachedTestMetadata, testMetadata, metaIndex) ==
    IF metaIndex >= Len(metadataProperties) THEN "pass"
    ELSE LET r == CompareMeta(cachedTestMetadata, testMetadata,
                              metadataProperties[metaIndex + 1])
         IN  IF r # "pass" THEN r
             ELSE CompareTest(cachedTestMetadata, testMetadata, metaIndex + 1)

\* validateCache from its i-th test name on; cached is cached_metadata as the
\* earlier iterations left it.  ret is "true", "false" or "TypeError", cached
\* is cached_metadata at that point, looked the number of names looked up.
RECURSIVE ValidateFrom(_, _, _)
ValidateFrom(md, cached, i) ==
    IF i > Len(md.props)
    THEN [ret |-> IF Len(cached.props) > 0 THEN "false" ELSE "true",
          cached |-> cached, looked |-> i - 1]
    ELSE LET testName == md.props[i][1]
         IN  IF ~hasOwnProperty(cached, testName)
             THEN [ret |-> "false", cached |-> cached, looked |-> i]
             ELSE LET testMetadata == md.props[i][2]
                      cachedTestMetadata == GetOwn(cached, testName)
                      rest == Delete(cached, testName)
                      r == CompareTest(cachedTestMetadata, testMetadata, 0)
                  IN  IF r # "pass"
                      THEN [ret |-> r, cached |-> rest, looked |-> i]
                      ELSE ValidateFrom(md, rest, i + 1)

validateCache(md, cached) == ValidateFrom(md, cached, 1)

\* ------------------------------------------------------------ the renderer

\* JSON.stringify of a string
RECURSIVE Escape(_)
Escape(cs) ==
    IF cs = <<>> THEN <<>>
    ELSE (CASE Head(cs) = "\"" -> <<"\\", "\"">>
            [] Head(cs) = "\\" -> <<"\\", "\\">>
            [] Head(cs) = "\n" -> <<"\\", "n">>
            [] OTHER -> <<Head(cs)>>) \o Escape(Tail(cs))

JSONstringify(s) == <<"\"">> \o Escape(Chars(s)) \o <<"\"">>

RECURSIVE jsonifyItems(_, _, _, _)
jsonifyItems(arrayValue, indent, i, output) ==
    IF ~(i < Len(arrayValue.items)) THEN output
    ELSE jsonifyItems(arrayValue, indent, i + 1,
             output \o (IF 0 < i THEN <<",", "\n", " ", " ">> \o indent ELSE <<>>)
                    \o JSONstringify(At(arrayValue, i)))

jsonifyArray(arrayValue, indent) ==
    (IF 1 = Len(arrayValue.items)
     THEN <<"[">> \o JSONstringify(At(arrayValue, 0))
     ELSE jsonifyItems(arrayValue, indent, 0, <<"[">>)) \o <<"]">>

Padding ==
    <<" ", " ", " ", " ", " ", " ", " ", " ",
      " ", " ", " ", " ", " ", " ", " ", " ">>

Min(a, b) == IF a < b THEN a ELSE b

\* typeof(value) == 'object'
TypeofObject(v) == v.type \in {"object", "null"}

\* The properties for-in enumerates: none for null
Enumerable(v) == IF v.type = "object" THEN v.props ELSE <<>>

RECURSIVE jsonifyObject(_, _)
RECURSIVE jsonifyProps(_, _, _, _)
jsonifyProps(objectValue, indent, i, output) ==
    IF i > Len(Enumerable(objectValue)) THEN output
    ELSE LET property == Enumerable(objectValue)[i][1]
             value == Enumerable(objectValue)[i][2]
             head == output \o (IF i > 1 THEN <<",">> ELSE <<>>)
                       \o <<"\n", " ", " ">> \o indent
                       \o <<"\"">> \o Chars(property) \o <<"\"", ":", " ">>
         IN  jsonifyProps(objectValue, indent, i + 1,
                 head \o (IF InstanceofArray(value)
                          THEN jsonifyArray(value,
                                   indent \o SubSeq(Padding, 1,
                                       Min(Len(Padding), 5 + Len(Chars(property)))))
                          ELSE IF TypeofObject(value)
                          THEN jsonifyObject(value, indent \o <<" ", " ">>)
                          ELSE JSONstringify(value.str)))

jsonifyObject(objectValue, indent) ==
    LET output == jsonifyProps(objectValue, indent, 1, <<"{">>)
    IN  (IF 1 < Len(output) THEN output \o <<"\n">> \o indent ELSE output) \o <<"}">>

ScriptOpen ==
    <<"<", "s", "c", "r", "i", "p", "t", " ", "i", "d", "=", "\"", "t", "e", "s",
      "t", "_", "m", "e", "t", "a", "d", "a", "t", "a", "\"", ">", "\n">>
Assignment ==
    <<"v", "a", "r", " ", "c", "a", "c", "h", "e", "d", "_", "m", "e", "t", "a", "d",
      "a", "t", "a", " ", "=", " ">>
ScriptClose ==
    <<"<", "/", "s", "c", "r", "i", "p", "t", ">", "\n">>

generateSource(md) == ScriptOpen \o Assignment \o jsonifyObject(md, <<>>) \o <<"\n">> \o ScriptClose

\* ------------------------------------------------------------- JSON.parse
\* What reads the rendered literal back: the JSON grammar (ECMA-404) for
\* objects, arrays, strings and null.  A parsed string is its sequence of
\* characters, a parsed object a function from its keys.

Whitespace == {" ", "\n", "\t", "\r"}
CharAt(s, i) == IF i \in 1..Len(s) THEN s[i] ELSE ""

RECURSIVE SkipWs(_, _)
SkipWs(s, i) == IF CharAt(s, i) \in Whitespace THEN SkipWs(s, i + 1) ELSE i

Fail == [ok |-> FALSE, value |-> Null, next |-> 0]
Ok(v, n) == [ok |-> TRUE, value |-> v, next |-> n]
ParsedString(cs) == [type |-> "string", chars |-> cs]
ParsedArray(items) == [type |-> "array", items |-> items]
ParsedObject(fields) == [type |-> "object", fields |-> fields]

\* The characters of a string from position i, after its opening quote.
RECURSIVE ParseChars(_, _, _)
ParseChars(s, i, acc) ==
    LET c == CharAt(s, i)
        e == CharAt(s, i + 1)
    IN  IF c = "" \/ c \in {"\n", "\t", "\r"} THEN Fail
        ELSE IF c = "\"" THEN Ok(acc, i + 1)
        ELSE IF c = "\\"
        THEN IF e \in {"\"", "\\", "/"} THEN ParseChars(s, i + 2, Append(acc, e))
             ELSE IF e = "n" THEN ParseChars(s, i + 2, Append(acc, "\n"))
             ELSE IF e = "t" THEN ParseChars(s, i + 2, Append(acc, "\t"))
             ELSE IF e = "r" THEN ParseChars(s, i + 2, Append(acc, "\r"))
             ELSE Fail
        ELSE ParseChars(s, i + 1, Append(acc, c))

RECURSIVE ParseValue(_, _)
RECURSIVE ParseMembers(_, _, _)
RECURSIVE ParseElements(_, _, _)

\* The members of an object from position i, after "{" or ","
ParseMembers(s, i, fields) ==
    LET k == SkipWs(s, i)
        key == ParseChars(s, k + 1, <<>>)
        colon == SkipWs(s, key.next)
        value == ParseValue(s, colon + 1)
        after == SkipWs(s, value.next)
        all == (key.value :> value.value) @@ fields
    IN  IF CharAt(s, k) # "\"" \/ ~key.ok THEN Fail
        ELSE IF CharAt(s, colon) # ":" \/ ~value.ok THEN Fail
        ELSE IF CharAt(s, after) = "," THEN ParseMembers(s, after + 1, all)
        ELSE IF CharAt(s, after) = "}" THEN Ok(ParsedObject(all), after + 1)
        ELSE Fail

\* The elements of an array from position i, after "[" or ","
ParseElements(s, i, items) ==
    LET value == ParseValue(s, i)
        after == SkipWs(s, value.next)
        all == Append(items, value.value)
    IN  IF ~value.ok THEN Fail
        ELSE IF CharAt(s, after) = "," THEN ParseElements(s, after + 1, all)
        ELSE IF CharAt(s, after) = "]" THEN Ok(ParsedArray(all), after + 1)
        ELSE Fail

ParseValue(s, i) ==
    LET k == SkipWs(s, i)
        c == CharAt(s, k)
        inner == SkipWs(s, k + 1)
    IN  IF c = "{"
        THEN IF CharAt(s, inner) = "}" THEN Ok(ParsedObject(<<>>), inner + 1)
             ELSE ParseMembers(s, k + 1, <<>>)
        ELSE IF c = "["
        THEN IF CharAt(s, inner) = "]" THEN Ok(ParsedArray(<<>>), inner + 1)
             ELSE ParseElements(s, k + 1, <<>>)
        ELSE IF c = "\""
        THEN LET str == ParseChars(s, k + 1, <<>>)
             IN  IF str.ok THEN Ok(ParsedString(str.value), str.next) ELSE Fail
        ELSE IF k + 3 <= Len(s) /\ SubSeq(s, k, k + 3) = <<"n", "u", "l", "l">> THEN Ok(Null, k + 4)
        ELSE Fail

SyntaxError == [type |-> "SyntaxError"]

JSONparse(s) ==
    LET r == ParseValue(s, 1)
    IN  IF r.ok /\ SkipWs(s, r.next) = Len(s) + 1 THEN r.value ELSE SyntaxError

\* A value of the program in the form JSONparse gives its values.
RECURSIVE Parsed(_)
Parsed(v) ==
    CASE v.type = "object" ->
           ParsedObject([k \in {Chars(key) : key \in KeySet(v)} |->
               Parsed(GetOwn(v, CHOOSE key \in KeySet(v) : Chars(key) = k))])
      [] v.type = "array" ->
           ParsedArray([i \in 1..Len(v.items) |-> ParsedString(Chars(v.items[i]))])
      [] v.type = "string" -> ParsedString(Chars(v.str))
      [] OTHER -> v

\* -------------------------------------------------------------- process

\* this.metadata[test.name], as the condition of line 187
Recorded_Never(md, name) == FALSE
Recorded(md, name) == Truthy(Get(md, name))

\* One iteration of the loop of lines 185-193.
ProcessTest ==
    /\ pc = "process"
    /\ index < Len(tests)
    /\ LET test == tests[index + 1]
       IN  IF Recorded(metadata, test.name)
           THEN /\ document' = error(document, <<"Duplicate test name: ", test.name>>)
                /\ UNCHANGED metadata
           ELSE /\ metadata' = Put(metadata, test.name, extractFromTest(test))
                /\ UNCHANGED document
    /\ index' = index + 1
    /\ UNCHANGED <<tests, cached_metadata, message, messageClass, pc, returned,
                   looked, exception, extracted, source>>

\* window.cached_metadata != undefined
CachePresent(cached) == cached.type \notin {"undefined", "null"}

\* The message and its class lines 195-205 choose; valid is validateCache's
\* return value, read only when the cache is present.
CacheStatus_Swapped(cached, valid) ==
    IF CachePresent(cached)
    THEN IF ~valid
         THEN [message |-> Null, messageClass |-> "warning"]
         ELSE [message |-> JSString("Cached metadata out of sync. "), messageClass |-> "error"]
    ELSE [message |-> JSString("Cached metdata not present. "), messageClass |-> "warning"]
CacheStatus(cached, valid) ==
    IF CachePresent(cached)
    THEN IF ~valid
         THEN [message |-> JSString("Cached metadata out of sync. "), messageClass |-> "error"]
         ELSE [message |-> Null, messageClass |-> "warning"]
    ELSE [message |-> JSString("Cached metdata not present. "), messageClass |-> "warning"]

\* Lines 195-205, entered when the loop is over.  A TypeError thrown by
\* validateCache leaves process at once.
ProcessCache ==
    /\ pc = "process"
    /\ ~(index < Len(tests))
    /\ LET r == IF CachePresent(cached_metadata)
                THEN validateCache(metadata, cached_metadata)
                ELSE [ret |-> "none", cached |-> cached_metadata, looked |-> 0]
           status == CacheStatus(cached_metadata, r.ret = "true")
       IN  /\ returned' = r.ret
           /\ looked' = r.looked
           /\ cached_metadata' = r.cached
           /\ IF r.ret = "TypeError"
              THEN /\ pc' = "done"
                   /\ exception' = "TypeError"
                   /\ UNCHANGED <<message, messageClass>>
              ELSE /\ pc' = "report"
                   /\ message' = status.message
                   /\ messageClass' = status.messageClass
                   /\ UNCHANGED exception
    /\ UNCHANGED <<tests, index, metadata, document, extracted, source>>

\* The element lines 208-217 build.
MessageElement(text, class) ==
    LET p == appendText(setAttribute(setAttribute(createElement("p"),
                            "id", "metadata_issue"), "class", class), <<text>>)
        link == setAttribute(setAttribute(
                    appendText(createElement("a"), <<"Click for source code.">>),
                    "href", "#"), "onclick", "metadata_generator.addSourceElement()")
    IN  appendChild(p, link)

\* Lines 207-226.
ProcessReport ==
    /\ pc = "report"
    /\ document' = IF Truthy(message)
                   THEN PlaceMessage(document, MessageElement(message.str, messageClass))
                   ELSE document
    /\ pc' = "done"
    /\ UNCHANGED <<tests, index, metadata, cached_metadata, message, messageClass,
                   returned, looked, exception, extracted, source>>

\* ----------------------------------------------------- addSourceElement

Instructions ==
    "Copy the following into the <head> element of the test or the test's metadata sidecar file:"

\* The wrapper lines 163-173 build.
SourceWrapper(md) ==
    LET instructions == appendText(createElement("p"), <<Instructions>>)
        sourceElement == appendText(createElement("pre"), generateSource(md))
    IN  appendChild(appendChild(setAttribute(createElement("div"), "id", "metadata_source"),
                                instructions), sourceElement)

\* Lines 175-177, for a message element that exists.
ReplaceMessage_Append(doc, messageElement, sourceWrapper) ==
    removeChild(appendChild(doc, sourceWrapper), messageElement)
ReplaceMessage(doc, messageElement, sourceWrapper) ==
    removeChild(insertBefore(doc, nextSibling(messageElement), sourceWrapper),
                messageElement)

\* addSourceElement, called by the message's link or by any script of the
\* page once process is over.  Without a metadata_issue element line 176
\* reads parentNode of null and throws.
AddSourceElement ==
    /\ pc = "done"
    /\ LET messageElement == getElementById(document, "metadata_issue")
       IN  IF messageElement = <<>>
           THEN /\ exception' = "TypeError"
                /\ UNCHANGED document
           ELSE /\ document' = ReplaceMessage(document, messageElement,
                                              SourceWrapper(metadata))
                /\ UNCHANGED exception
    /\ UNCHANGED <<tests, index, metadata, cached_metadata, message, messageClass,
                   pc, returned, looked, extracted, source>>

\* ------------------------------------------------------------ the inputs

Elements == {"a", "b"}
BoundedSeq(S, n) == UNION {[1..k -> S] : k \in 0..n}
Arrays == {JSArray(items) : items \in BoundedSeq(Elements, MaxLen)}

\* A properties object: for each key of order, what says whether the object
\* has it as an own property (and its value), inherits it, or lacks it.
Absent == [kind |-> "absent", value |-> Undefined]
Inherited == [kind |-> "inherited", value |-> Undefined]
Own(v) == [kind |-> "own", value |-> v]

RECURSIVE OwnProps(_, _)
OwnProps(order, what) ==
    IF order = <<>> THEN <<>>
    ELSE (IF what[Head(order)].kind = "own"
          THEN <<<<Head(order), what[Head(order)].value>>>> ELSE <<>>)
         \o OwnProps(Tail(order), what)

Object(order, what) == JSObject(OwnProps(order, what))

PropertyOrder == <<"timeout", "author", "assert", "help">>

Properties(what) ==
    [type |-> "object", props |-> OwnProps(PropertyOrder, what),
     inherited |-> {k \in DOMAIN what : what[k].kind = "inherited"}]

Test(name, properties) == [name |-> name, properties |-> properties]

NoProperty == [k \in {"timeout", "author", "assert", "help"} |-> Absent]

\* The Test Records and the caches of a run of process.
TestNames == {"t1", "t2", "constructor"}
TestProperties ==
    {Properties(NoProperty),
     Properties([NoProperty EXCEPT !["help"] = Own(JSArray(<<"a">>))]),
     Properties([NoProperty EXCEPT !["help"] = Own(JSArray(<<"a", "b">>)),
                                   !["timeout"] = Own(JSString("a"))])}
TestRecords == {Test(name, properties) : name \in TestNames, properties \in TestProperties}

CacheEntries ==
    {Absent, Own(EmptyObject),
     Own(JSObject(<<<<"help", JSArray(<<"a">>)>>>>)),
     Own(JSObject(<<<<"help", Null>>>>))}
Caches ==
    {Undefined, Null} \cup {Object(<<"t1", "t2">>, what) : what \in [{"t1", "t2"} -> CacheEntries]}

Element(tag, id, children) ==
    [setAttribute(createElement(tag), "id", id) EXCEPT !.children = children]
Documents ==
    {[createElement("body") EXCEPT !.children = <<Element("h1", "title", <<>>)>>],
     [createElement("body") EXCEPT !.children =
        <<Element("h1", "title", <<>>), Element("div", "summary", <<>>),
          Element("div", "log", <<>>)>>],
     [createElement("body") EXCEPT !.children =
        <<Element("div", "results",
                  <<Element("h1", "title", <<>>), Element("div", "summary", <<>>),
                    Element("table", "details", <<>>)>>),
          Element("div", "log", <<>>)>>]}

\* The state the page is in when the harness calls process.
Init ==
    /\ tests \in BoundedSeq(TestRecords, MaxTests)
    /\ cached_metadata \in Caches
    /\ document \in Documents
    /\ index = 0
    /\ metadata = EmptyObject
    /\ message = Null
    /\ messageClass = "warning"
    /\ pc = "process"
    /\ returned = "none"
    /\ looked = 0
    /\ exception = "none"
    /\ extracted = Undefined
    /\ source = <<>>

Next == ProcessTest \/ ProcessCache \/ ProcessReport \/ AddSourceElement

Spec == Init /\ [][Next]_vars

\* -------------------------------------------- validateCache on its own

ValidateValues == Arrays \cup {JSString("a"), Null}
ValidateEntries ==
    {Object(metadataProperties, [NoProperty EXCEPT !["help"] = help, !["author"] = author]) :
        help \in {Absent} \cup {Own(v) : v \in ValidateValues},
        author \in {Absent, Own(JSArray(<<"a">>))}}
FewEntries == {EmptyObject, JSObject(<<<<"help", JSArray(<<"a">>)>>>>)}

\* The mappings process can have extracted: the entries in the order of the
\* tests.  The cached mappings are whatever the page declares.
ExtractedMappings ==
    {EmptyObject}
    \cup {JSObject(<<<<"t1", e>>>>) : e \in ValidateEntries}
    \cup {JSObject(<<<<"t2", f>>>>) : f \in FewEntries}
    \cup {JSObject(<<<<"t1", e>>, <<"t2", f>>>>) : e \in ValidateEntries, f \in FewEntries}
    \cup {JSObject(<<<<"t2", f>>, <<"t1", e>>>>) : e \in ValidateEntries, f \in FewEntries}
CachedMappings ==
    {Object(<<"t1", "t2">>, [t1 |-> e, t2 |-> f]) :
        e \in {Absent, Own(Null)} \cup {Own(x) : x \in ValidateEntries},
        f \in {Absent} \cup {Own(x) : x \in FewEntries}}

InitValidate ==
    /\ metadata \in ExtractedMappings
    /\ cached_metadata \in CachedMappings
    /\ pc = "validate"
    /\ tests = <<>>
    /\ index = 0
    /\ document = createElement("body")
    /\ message = Null
    /\ messageClass = "warning"
    /\ returned = "none"
    /\ looked = 0
    /\ exception = "none"
    /\ extracted = Undefined
    /\ source = <<>>

ValidateCache ==
    /\ pc = "validate"
    /\ LET r == validateCache(metadata, cached_metadata)
       IN  /\ returned' = r.ret
           /\ looked' = r.looked
           /\ cached_metadata' = r.cached
           /\ exception' = IF r.ret = "TypeError" THEN "TypeError" ELSE exception
    /\ pc' = "validated"
    /\ UNCHANGED <<tests, index, metadata, message, messageClass, document,
                   extracted, source>>

SpecValidate == InitValidate /\ [][ValidateCache]_vars

\* ------------------------------------------- extractFromTest on its own

ExtractValues == Arrays \cup {JSString("a"), Null}
ExtractChoices == {Absent, Inherited} \cup {Own(v) : v \in ExtractValues}

InitExtract ==
    /\ \E name \in {"t1", "constructor"} :
       \E what \in [{"timeout", "author", "assert", "help"} -> ExtractChoices] :
           tests = <<Test(name, Properties(what))>>
    /\ metadata \in {EmptyObject, JSObject(<<<<"t1", EmptyObject>>>>)}
    /\ pc = "extract"
    /\ cached_metadata = Undefined
    /\ index = 0
    /\ document = createElement("body")
    /\ message = Null
    /\ messageClass = "warning"
    /\ returned = "none"
    /\ looked = 0
    /\ exception = "none"
    /\ extracted = Undefined
    /\ source = <<>>

ExtractFromTest ==
    /\ pc = "extract"
    /\ extracted' = extractFromTest(tests[1])
    /\ pc' = "extracted"
    /\ UNCHANGED <<tests, index, metadata, cached_metadata, message, messageClass,
                   document, returned, looked, exception, source>>

SpecExtract == InitExtract /\ [][ExtractFromTest]_vars

\* ---------------------------------------------- the renderer on its own

RenderNames == {"t1", "t2", "q\""}
RenderProperties ==
    {Properties(NoProperty),
     Properties([NoProperty EXCEPT !["help"] = Own(JSArray(<<"a">>))]),
     Properties([NoProperty EXCEPT !["help"] = Own(JSArray(<<"a", "b">>)),
                                   !["assert"] = Own(JSArray(<<>>))])}

InitRender ==
    /\ tests \in BoundedSeq({Test(name, properties) :
                                name \in RenderNames, properties \in RenderProperties},
                            MaxTests)
    /\ cached_metadata = Undefined
    /\ document = createElement("body")
    /\ index = 0
    /\ metadata = EmptyObject
    /\ message = Null
    /\ messageClass = "warning"
    /\ pc = "process"
    /\ returned = "none"
    /\ looked = 0
    /\ exception = "none"
    /\ extracted = Undefined
    /\ source = <<>>

\* jsonifyObject(this.metadata, ''), as generateSource calls it once the
\* tests are extracted.
JsonifyObject ==
    /\ pc = "process"
    /\ ~(index < Len(tests))
    /\ source' = jsonifyObject(metadata, <<>>)
    /\ pc' = "rendered"
    /\ UNCHANGED <<tests, index, metadata, cached_metadata, message, messageClass,
                   document, returned, looked, exception, extracted>>

SpecRender == InitRender /\ [][ProcessTest \/ JsonifyObject]_vars

\* ========================================================== properties

\* The elements of a tree in document order.
RECURSIVE Flatten(_)
RECURSIVE FlattenFrom(_, _)
FlattenFrom(children, i) ==
    IF i > Len(children) THEN <<>>
    ELSE Flatten(children[i]) \o FlattenFrom(children, i + 1)
Flatten(node) == <<node>> \o FlattenFrom(node.children, 1)

HasAttr(el, name, value) == <<name, value>> \in el.attrs
Text(el) == IF el.children = <<>> THEN <<>> ELSE el.children[1].data

\* A reported message: a p element with a class (the page's own elements and
\* the instructions paragraph carry none).
IsMessage(el) == el.tag = "p" /\ \E a \in el.attrs : a[1] = "class"
IsIssue(el) == HasAttr(el, "id", "metadata_issue")
Messages(doc) == SelectSeq(Flatten(doc), IsMessage)
Issues(doc) == SelectSeq(Flatten(doc), IsIssue)
Wrappers(doc) == SelectSeq(Flatten(doc), LAMBDA el : HasAttr(el, "id", "metadata_source"))

Recognized == {metadataProperties[i] : i \in 1..Len(metadataProperties)}
NamesUpTo(n) == {tests[i].name : i \in 1..n}
OccurredEarlier(i) == tests[i].name \in NamesUpTo(i - 1)
FirstWith(name) == CHOOSE i \in 1..Len(tests) :
    tests[i].name = name /\ \A j \in 1..(i - 1) : tests[j].name # name

SameEntry(entry, cachedEntry) ==
    /\ cachedEntry.type = "object"
    /\ \A key \in Recognized :
          \/ ~hasOwnProperty(entry, key) /\ ~hasOwnProperty(cachedEntry, key)
          \/ /\ hasOwnProperty(entry, key) /\ hasOwnProperty(cachedEntry, key)
             /\ GetOwn(entry, key) = GetOwn(cachedEntry, key)
SameMappings(md, cached) ==
    /\ KeySet(md) = KeySet(cached)
    /\ \A name \in KeySet(md) : SameEntry(GetOwn(md, name), GetOwn(cached, name))

\* ---- C1: validateCache returns true exactly when the extracted and the
\* cached mapping have the same test names and, for every test and every
\* recognized key, the key is absent on both sides or present on both with
\* equal sequences; in every other case it returns false.
C1_ValidateIffSame ==
    [][pc = "validate" /\ pc' = "validated"
         => returned' = IF SameMappings(metadata, cached_metadata) THEN "true" ELSE "false"]_vars

IssueIs(doc, text, class) ==
    /\ Len(Issues(doc)) = 1
    /\ Issues(doc)[1].tag = "p"
    /\ HasAttr(Issues(doc)[1], "class", class)
    /\ Text(Issues(doc)[1]) = <<text>>

\* ---- C2: when process completes, the document holds one metadata_issue
\* message 'Cached metdata not present.' of class warning if cached_metadata
\* is absent (undefined or null), one 'Cached metadata out of sync.' of
\* class error if validateCache returned false, and no metadata_issue
\* element otherwise.
C2_CacheStatusMessage ==
    [][pc = "report" /\ pc' = "done"
         => IF cached_metadata.type \in {"undefined", "null"}
            THEN IssueIs(document', "Cached metdata not present. ", "warning")
            ELSE IF returned = "false"
            THEN IssueIs(document', "Cached metadata out of sync. ", "error")
            ELSE returned = "true" /\ Issues(document') = <<>>]_vars

C2_Witness ==
    /\ pc = "done"
    /\ returned = "false"
    /\ Len(metadata.props) > 0
    /\ IssueIs(document, "Cached metadata out of sync. ", "error")

DuplicateError(name) ==
    appendText(setAttribute(createElement("p"), "class", "error"),
               <<"Duplicate test name: ", name>>)

\* ---- C3: a record whose name occurred at an earlier position adds one
\* 'Duplicate test name: <name>' message of class error and leaves the
\* extracted mapping as it was; an entry of the extracted mapping is the
\* metadata of the first record of its name and is never overwritten.
C3_DuplicateNames ==
    [][/\ (pc = "process" /\ index < Len(tests) /\ OccurredEarlier(index + 1))
            => /\ index' = index + 1
               /\ metadata' = metadata
               /\ Messages(document') =
                     Append(Messages(document), DuplicateError(tests[index + 1].name))
       /\ \A name \in KeySet(metadata) :
             hasOwnProperty(metadata', name) /\ GetOwn(metadata', name) = GetOwn(metadata, name)
       /\ \A name \in KeySet(metadata') :
             GetOwn(metadata', name) = extractFromTest(tests[FirstWith(name)])]_vars

C3_Witness ==
    /\ pc = "done"
    /\ Len(tests) = 2
    /\ tests[1].name = "t1"
    /\ tests[2].name = "t1"
    /\ extractFromTest(tests[1]) # extractFromTest(tests[2])
    /\ GetOwn(metadata, "t1") = extractFromTest(tests[1])
    /\ \E i \in 1..Len(Messages(document)) :
          Messages(document)[i] = DuplicateError("t1")

\* ---- C4: extractFromTest(R) has key k exactly when k is one of help,
\* assert, author and R.properties has k as an own property, with
\* R.properties[k] as its value; R and the extracted mapping are left as
\* they were.
C4_ExtractFromTest ==
    [][pc = "extract" /\ pc' = "extracted"
         => /\ extracted'.type = "object"
            /\ \A k \in {"timeout", "author", "assert", "help"} \cup KeySet(extracted') :
                  hasOwnProperty(extracted', k)
                     <=> (k \in {"help", "assert", "author"}
                          /\ hasOwnProperty(tests[1].properties, k))
            /\ \A k \in KeySet(extracted') :
                  GetOwn(extracted', k) = GetOwn(tests[1].properties, k)
            /\ tests' = tests
            /\ metadata' = metadata]_vars

C4_Witness ==
    /\ pc = "extracted"
    /\ hasOwnProperty(tests[1].properties, "timeout")
    /\ hasOwnProperty(tests[1].properties, "help")
    /\ "assert" \in tests[1].properties.inherited
    /\ ~hasOwnProperty(tests[1].properties, "author")
    /\ KeySet(extracted) = {"help"}

\* ---- C5: when a metadata_issue message is in the document,
\* addSourceElement leaves no metadata_issue element and exactly one
\* metadata_source wrapper, at the place the message had among its siblings,
\* holding the instructions paragraph and then a pre whose text is
\* generateSource() of the extracted mapping; every other element stays
\* where it was.
C5_SourceReplacesMessage ==
    [][(pc = "done" /\ Issues(document) # <<>>)
         => LET at == getElementById(document, "metadata_issue")
                wrapper == NodeAt(document', at)
            IN  /\ Issues(document') = <<>>
                /\ Len(Wrappers(document')) = 1
                /\ getElementById(document', "metadata_source") = at
                /\ wrapper.tag = "div"
                /\ Len(wrapper.children) = 2
                /\ wrapper.children[1].tag = "p"
                /\ Text(wrapper.children[1]) = <<Instructions>>
                /\ wrapper.children[2].tag = "pre"
                /\ Text(wrapper.children[2])
                      = ScriptOpen \o Assignment \o jsonifyObject(metadata, <<>>)
                           \o <<"\n">> \o ScriptClose
                /\ removeChild(document', at) = removeChild(document, at)
                /\ metadata' = metadata]_vars

C5_Witness ==
    /\ pc = "done"
    /\ Len(metadata.props) = 2
    /\ Len(Wrappers(document)) = 1
    /\ Issues(document) = <<>>
    /\ getElementById(document, "summary") = nextSibling(getElementById(document, "metadata_source"))
    /\ Len(getElementById(document, "summary")) = 2

\* ---- C6: parsing the literal jsonifyObject emits for the extracted mapping
\* as JSON gives a mapping deeply equal to the extracted mapping.
C6_RenderRoundTrip == pc = "rendered" => JSONparse(source) = Parsed(metadata)

\* ---- C7: no operation of the generator ends in an exception.
C7_NoException == exception = "none"

\* ---- C8: when validateCache returns, the cached mapping is what it was
\* less the extracted test names looked up and found, the remaining entries
\* and the extracted mapping are untouched, and the cached mapping is empty
\* if it returns true.
C8_CacheOnlyDrained ==
    [][(pc = "validate" /\ pc' = "validated" /\ returned' \in {"true", "false"})
         => LET consumed == {Keys(metadata)[i] : i \in 1..looked'} \cap KeySet(cached_metadata)
            IN  /\ KeySet(cached_metadata') = KeySet(cached_metadata) \ consumed
                /\ \A name \in KeySet(cached_metadata') :
                      GetOwn(cached_metadata', name) = GetOwn(cached_metadata, name)
                /\ Len(cached_metadata'.props) = Cardinality(KeySet(cached_metadata'))
                /\ metadata' = metadata
                /\ returned' = "true" => cached_metadata'.props = <<>>]_vars

C8_Witness ==
    /\ pc = "validated"
    /\ returned = "false"
    /\ looked = 2
    /\ Len(metadata.props) = 2
    /\ cached_metadata.props = <<>>

\* ---- C9: a message reported during process is inserted when it is
\* reported, directly before the summary element if there is one and else
\* as the last child of the body, so the messages stand in the document in
\* the order they were reported, the last one right before the summary (or
\* last in the body).
C9_MessagePlacement ==
    [][(pc \in {"process", "report"} /\ document' # document)
         => LET summary == getElementById(document, "summary")
                new == IF summary # <<>> THEN NodeAt(document', summary)
                       ELSE document'.children[Len(document'.children)]
            IN  /\ IsMessage(new)
                /\ Messages(document') = Append(Messages(document), new)
                /\ IF summary # <<>>
                   THEN /\ getElementById(document', "summary") = nextSibling(summary)
                        /\ removeChild(document', summary) = document
                   ELSE document'.children = Append(document.children, new)]_vars

C9_Witness ==
    /\ pc = "done"
    /\ getElementById(document, "summary") # <<>>
    /\ Len(Messages(document)) = 3
    /\ Messages(document)[1] = DuplicateError("constructor")
    /\ Messages(document)[2] = DuplicateError("t1")
    /\ IsIssue(Messages(document)[3])
    /\ NodeAt(document, [getElementById(document, "summary") EXCEPT
                            ![Len(getElementById(document, "summary"))] = @ - 1])
          = Messages(document)[3]

\* ---- C10: a record gets a 'Duplicate test name' error only if an earlier
\* record has its name, and every other record is stored under its name, so
\* the extracted mapping's keys are the distinct test names of the input.
C10_ErrorsOnlyForDuplicates ==
    /\ KeySet(metadata) = NamesUpTo(index)
    /\ Len(SelectSeq(Messages(document), LAMBDA el : ~IsIssue(el)))
          = Cardinality({i \in 1..index : OccurredEarlier(i)})

====
